---------------------------- MODULE Spec2Model ----------------------------
(***************************************************************************)
(* Model of tools/hardward/get_hard_info.py: the byte-size formatter       *)
(* get_size, the eleven collectors and the aggregator hardware_info.       *)
(*                                                                         *)
(* Python values are tagged records: Str(<<chars>>), PyInt(n), NoneVal and *)
(* Dict(<<items>>), a dict being the sequence of its items in insertion    *)
(* order.  A byte count or a float is a Num: its integer part and its      *)
(* fraction as base-1024 limbs, most significant first, so that values     *)
(* beyond 2^31 are exact and a division by 1024 is a shift of one limb.    *)
(***************************************************************************)
EXTENDS Integers, Sequences, FiniteSets, TLC

(***************************************************************************)
(* Bounds of the model.                                                    *)
(***************************************************************************)
MaxLimbs == 7        \* longest byte count, in limbs: up to 1024^7 - 1
MaxPartitions == 3   \* most partitions psutil.disk_partitions() returns
MaxGpus == 2         \* most GPUs GPUtil.getGPUs() returns
MaxDepth == 2        \* deepest parent directory of --output

(***************************************************************************)
(* Python values.                                                          *)
(***************************************************************************)
NoneVal == [t |-> "NoneType"]
Str(chars) == [t |-> "str", s |-> chars]
\* A string the operating system hands over, copied and never taken apart.
Text(text) == [t |-> "str", text |-> text]
PyInt(n) == [t |-> "int", n |-> n]
Dict(items) == [t |-> "dict", items |-> items]
EmptyDict == Dict(<<>>)

IsDict(v) == v.t = "dict"
Keys(d) == [i \in 1..Len(d.items) |-> d.items[i].k]
HasKey(d, key) == \E i \in 1..Len(d.items) : d.items[i].k = key
Get(d, key) == d.items[CHOOSE i \in 1..Len(d.items) : d.items[i].k = key].v

\* d[key] = val: an existing key keeps its place, a new one goes last.
DictSet(d, key, val) ==
    IF HasKey(d, key)
    THEN Dict([i \in 1..Len(d.items) |->
                 IF d.items[i].k = key THEN [k |-> key, v |-> val] ELSE d.items[i]])
    ELSE Dict(Append(d.items, [k |-> key, v |-> val]))

(***************************************************************************)
(* Numbers.                                                                *)
(***************************************************************************)
factor == 1024
MantissaBits == 53   \* significant bits of a Python float (IEEE 754 binary64)

Num(ip, fp) == [ip |-> ip, fp |-> fp]

RECURSIVE Strip(_)
Strip(l) == IF l # <<>> /\ Head(l) = 0 THEN Strip(Tail(l)) ELSE l

NatNum(limbs) == Num(Strip(limbs), <<>>)
AllZero(l) == \A i \in 1..Len(l) : l[i] = 0
Front(l) == SubSeq(l, 1, Len(l) - 1)
Last(l) == l[Len(l)]

\* The value of a short limb sequence (at most 3 limbs fit TLC's integers).
RECURSIVE LimbsToNat(_)
LimbsToNat(l) == IF l = <<>> THEN 0 ELSE LimbsToNat(Front(l)) * factor + Last(l)

RECURSIVE NatToLimbs(_)
NatToLimbs(n) == IF n = 0 THEN <<>> ELSE Append(NatToLimbs(n \div factor), n % factor)

Small(n) == NatNum(NatToLimbs(n))

RECURSIVE BitLen(_)
BitLen(n) == IF n = 0 THEN 0 ELSE 1 + BitLen(n \div 2)

RECURSIVE ToBits(_)
ToBits(l) ==
    IF l = <<>> THEN <<>>
    ELSE [i \in 1..10 |-> (Head(l) \div 2^(10 - i)) % 2] \o ToBits(Tail(l))

RECURSIVE BitsToNat(_)
BitsToNat(b) == IF b = <<>> THEN 0 ELSE 2 * BitsToNat(Front(b)) + Last(b)

RECURSIVE FromBits(_)
FromBits(b) ==
    IF b = <<>> THEN <<>>
    ELSE Append(FromBits(SubSeq(b, 1, Len(b) - 10)),
                BitsToNat(SubSeq(b, Len(b) - 9, Len(b))))

RECURSIVE Incr(_)
Incr(b) ==
    IF b = <<>> THEN <<>>
    ELSE IF Last(b) = 0 THEN Append(Front(b), 1)
    ELSE Append(Incr(Front(b)), 0)

\* The number of significant bits of the value whose limbs are l.
SigBits(l) ==
    LET sig == Strip(l)
    IN  IF sig = <<>> THEN 0 ELSE BitLen(Head(sig)) + 10 * (Len(sig) - 1)

\* x as the nearest float: at most MantissaBits significant bits, ties to the
\* even mantissa.  A spare leading limb takes the carry of a round-up.
RoundDouble(x) ==
    IF SigBits(x.ip \o x.fp) <= MantissaBits THEN x
    ELSE LET bits == ToBits(<<0>> \o x.ip \o x.fp)
             n    == Len(bits)
             keep == n - SigBits(x.ip \o x.fp) + MantissaBits
             kept == SubSeq(bits, 1, keep)
             rest == SubSeq(bits, keep + 1, n)
             up   == /\ rest[1] = 1
                     /\ \/ kept[keep] = 1
                        \/ \E i \in 2..Len(rest) : rest[i] = 1
             res  == (IF up THEN Incr(kept) ELSE kept) \o [i \in 1..(n - keep) |-> 0]
             limbs == FromBits(res)
         IN  Num(Strip(SubSeq(limbs, 1, Len(x.ip) + 1)),
                 SubSeq(limbs, Len(x.ip) + 2, Len(limbs)))

\* bytes < factor
LessThanFactor(x) == Len(x.ip) <= 1

\* bytes /= factor: true division, the quotient rounded to a float.
DivFactor(x) ==
    RoundDouble(IF x.ip = <<>> THEN Num(<<>>, <<0>> \o x.fp)
                ELSE Num(Front(x.ip), <<Last(x.ip)>> \o x.fp))

(***************************************************************************)
(* String formatting.                                                      *)
(***************************************************************************)
DigitChars == <<"0", "1", "2", "3", "4", "5", "6", "7", "8", "9">>

RECURSIVE Digits(_)
Digits(n) ==
    IF n < 10 THEN <<DigitChars[n + 1]>>
    ELSE Append(Digits(n \div 10), DigitChars[(n % 10) + 1])

\* limbs * m, the limbs being a fraction: the carry out is the integer part.
RECURSIVE MulLimbs(_, _)
MulLimbs(l, m) ==
    IF l = <<>> THEN [c |-> 0, l |-> <<>>]
    ELSE LET r == MulLimbs(Tail(l), m)
             t == Head(l) * m + r.c
         IN  [c |-> t \div factor, l |-> <<t % factor>> \o r.l]

\* x in hundredths, correctly rounded, an exact tie going to the even digit.
Hundredths(x) ==
    LET r    == MulLimbs(x.fp, 100)
        c    == LimbsToNat(x.ip) * 100 + r.c
        half == r.l # <<>> /\ Head(r.l) = factor \div 2 /\ AllZero(Tail(r.l))
        over == r.l # <<>> /\ Head(r.l) >= factor \div 2 /\ ~half
    IN  IF over \/ (half /\ c % 2 = 1) THEN c + 1 ELSE c

\* f"{x:.2f}"
Format2f(x) ==
    LET h == Hundredths(x)
    IN  Digits(h \div 100) \o <<".">> \o
        <<DigitChars[((h % 100) \div 10) + 1], DigitChars[(h % 10) + 1]>>

(***************************************************************************)
(* get_size                                                                *)
(***************************************************************************)
Units == << <<>>, <<"K">>, <<"M">>, <<"G">>, <<"T">>, <<"P">> >>
suffix == <<"B">>

RECURSIVE get_size_loop(_, _)
get_size_loop(bytes, i) ==
    IF i > Len(Units) THEN NoneVal
    ELSE IF LessThanFactor(bytes)
         THEN Str(Format2f(bytes) \o Units[i] \o suffix)
         ELSE get_size_loop(DivFactor(bytes), i + 1)

get_size(bytes) == get_size_loop(bytes, 1)

(***************************************************************************)
(* Exceptions and small formatting helpers of the collectors.              *)
(***************************************************************************)
Raise(type) == [t |-> "raise", type |-> type]
Raised(v) == v.t = "raise"

\* A float with one decimal, as psutil and GPUtil report them: repr(x).
Float1(whole, tenth) == [whole |-> whole, tenth |-> tenth]
Repr(p) == Digits(p.whole) \o <<".">> \o Digits(p.tenth)

RECURSIVE SetAll(_, _)
SetAll(d, items) ==
    IF items = <<>> THEN d
    ELSE SetAll(DictSet(d, Head(items)[1], Head(items)[2]), Tail(items))

(***************************************************************************)
(* What the operating system answers.  A query is answered when its        *)
(* collector runs; the answers the model draws from are listed here.       *)
(***************************************************************************)
Uname == [system |-> Text("Linux"), node |-> Text("host"), release |-> Text("6.1"),
          version |-> Text("#1"), machine |-> Text("x86_64"), processor |-> Text("")]
BootStamp == [year |-> 2024, month |-> 1, day |-> 5, hour |-> 9, minute |-> 3, second |-> 7]
CpuCount == [physical |-> 2, logical |-> 4]
\* psutil.cpu_freq(): None where the platform exposes no frequency.
CpuFreqAnswers == {NoneVal,
                   [t |-> "scpufreq", current |-> Num(NatToLimbs(1800), <<512>>),
                    min |-> Small(800), max |-> Small(3400)]}
CpuPercents == [percpu |-> <<Float1(12, 5), Float1(0, 0)>>, total |-> Float1(6, 2)]
VirtualMemory == [total |-> NatNum(<<16, 0, 0, 0>>), available |-> NatNum(<<5, 512, 0, 0>>),
                  used |-> NatNum(<<10, 128, 0, 0>>), percent |-> Float1(65, 6)]
SwapAnswers == {[total |-> Small(0), free |-> Small(0), used |-> Small(0),
                 percent |-> Float1(0, 0)],
                [total |-> NatNum(<<2, 0, 0, 0>>), free |-> NatNum(<<1, 1023, 1023, 1023>>),
                 used |-> Small(1), percent |-> Float1(0, 1)]}
\* The device of the i-th partition: /dev/sda1, /dev/sdb1, ...
Device(i) == "/dev/sd" \o <<"a", "b", "c", "d", "e", "f", "g", "h">>[i] \o "1"
PermissionError == Raise("PermissionError")
Usage == [t |-> "sdiskusage", total |-> NatNum(<<1, 0, 0, 0, 0>>),
          used |-> NatNum(<<1023, 1023, 1023>>), free |-> NatNum(<<1, 0, 0>>),
          percent |-> Float1(99, 9)]
Partition(device, usage) ==
    [device |-> device, mountpoint |-> Text("/mnt" \o device), fstype |-> Text("ext4"),
     opts |-> Text("rw"), maxfile |-> PyInt(255), maxpath |-> PyInt(4096),
     usage |-> usage]
Partitions == {Partition(Device(i), u) : i \in 1..MaxPartitions, u \in {PermissionError, Usage}}
\* psutil.disk_partitions(): each partition on a device of its own, or a
\* further mount of the first one's device.
PartitionLists ==
    {l \in UNION {[1..n -> Partitions] : n \in 0..MaxPartitions} :
        \A i \in 1..Len(l) : l[i].device \in {Device(i), Device(1)}}
\* psutil.disk_io_counters(): None on a host without disks.
DiskIoAnswers == {NoneVal,
                  [t |-> "sdiskio", read_bytes |-> NatNum(<<3, 0, 0>>),
                   write_bytes |-> NatNum(<<1023, 1023>>)]}
Inet == [family |-> "AddressFamily.AF_INET", address |-> Text("10.0.0.2"),
         netmask |-> Text("255.0.0.0"), broadcast |-> Text("10.255.255.255")]
Packet == [family |-> "AddressFamily.AF_PACKET", address |-> Text("02:00:00:00:00:01"),
           netmask |-> NoneVal, broadcast |-> Text("ff:ff:ff:ff:ff:ff")]
Inet6 == [family |-> "AddressFamily.AF_INET6", address |-> Text("fe80::1"),
          netmask |-> Text("ffff::"), broadcast |-> NoneVal]
\* psutil.net_if_addrs(): interface name -> addresses, in the dict's order.
IfAddrsAnswers == {<<>>,
                   << <<"eth0", <<Inet, Inet6, Packet>> >>, <<"tun0", <<Inet6>> >> >>}
NetIo == [bytes_sent |-> NatNum(<<1, 0>>), bytes_recv |-> NatNum(<<1, 512, 0>>)]
Gpu(id) == [id |-> id, uuid |-> Text("GPU-0"), name |-> Text("T4"), load100 |-> Float1(25, 0),
            memoryFree |-> Float1(1024, 0), memoryUsed |-> Float1(512, 0),
            memoryTotal |-> Float1(1536, 0), temperature |-> Float1(40, 0)]
GpuLists == {[i \in 1..n |-> Gpu(i - 1)] : n \in 0..MaxGpus}

(***************************************************************************)
(* The collectors.                                                         *)
(***************************************************************************)
system_info(uname) ==
    Dict(<< [k |-> "System", v |-> uname.system], [k |-> "Node Name", v |-> uname.node],
            [k |-> "Release", v |-> uname.release], [k |-> "Version", v |-> uname.version],
            [k |-> "Machine", v |-> uname.machine],
            [k |-> "Processor", v |-> uname.processor] >>)

boot_time(bt) ==
    Dict(<< [k |-> "Boot Time",
             v |-> Str(Digits(bt.year) \o <<"/">> \o Digits(bt.month) \o <<"/">> \o
                       Digits(bt.day) \o <<" ">> \o Digits(bt.hour) \o <<":">> \o
                       Digits(bt.minute) \o <<":">> \o Digits(bt.second))] >>)

Mhz == <<"M", "h", "z">>

\* cpufreq.max on None raises AttributeError: nothing guards the query.
cpu_info(count, cpufreq) ==
    LET data == SetAll(EmptyDict, << <<"Physical cores", PyInt(count.physical)>>,
                                     <<"Total cores", PyInt(count.logical)>> >>)
    IN  IF cpufreq = NoneVal THEN Raise("AttributeError")
        ELSE SetAll(data, << <<"Max Frequency", Str(Format2f(cpufreq.max) \o Mhz)>>,
                             <<"Min Frequency", Str(Format2f(cpufreq.min) \o Mhz)>>,
                             <<"Current Frequency", Str(Format2f(cpufreq.current) \o Mhz)>> >>)

RECURSIVE cpu_usage_loop(_, _, _)
cpu_usage_loop(data, percpu, i) ==
    IF i > Len(percpu) THEN data
    ELSE cpu_usage_loop(DictSet(data, "Core " \o ToString(i - 1),
                                Str(Repr(percpu[i]) \o <<"%">>)), percpu, i + 1)

cpu_usage(percents) ==
    DictSet(cpu_usage_loop(EmptyDict, percents.percpu, 1), "Total CPU Usage",
            Str(Repr(percents.total) \o <<"%">>))

memory_info(svmem) ==
    SetAll(EmptyDict, << <<"Total", get_size(svmem.total)>>,
                         <<"Available", get_size(svmem.available)>>,
                         <<"Used", get_size(svmem.used)>>,
                         <<"Percentage", Str(Repr(svmem.percent) \o <<"%">>)>> >>)

swap_memory(swap) ==
    SetAll(EmptyDict, << <<"Total", get_size(swap.total)>>,
                         <<"Free", get_size(swap.free)>>,
                         <<"Used", get_size(swap.used)>>,
                         <<"Percentage", Str(Repr(swap.percent) \o <<"%">>)>> >>)

\* The entry of a partition before its usage is asked for.
MountInfo(partition) ==
    SetAll(EmptyDict, << <<"Mountpoint", partition.mountpoint>>,
                         <<"File system type", partition.fstype>>,
                         <<"opts", partition.opts>>,
                         <<"maxfile", partition.maxfile>>,
                         <<"maxpath", partition.maxpath>> >>)

UsageInfo(info, partition_usage) ==
    SetAll(info, << <<"Total Size", get_size(partition_usage.total)>>,
                    <<"Used", get_size(partition_usage.used)>>,
                    <<"Free", get_size(partition_usage.free)>>,
                    <<"Percentage", Str(Repr(partition_usage.percent) \o <<"%">>)>> >>)

\* The loop of disk_info with "return data" after it: every readable
\* partition gets its usage.
RECURSIVE disk_info_return_after_loop(_, _)
disk_info_return_after_loop(data, partitions) ==
    IF partitions = <<>> THEN data
    ELSE LET partition == Head(partitions)
             info == MountInfo(partition)
         IN  disk_info_return_after_loop(
                 DictSet(data, partition.device,
                         IF Raised(partition.usage) THEN info
                         ELSE UsageInfo(info, partition.usage)),
                 Tail(partitions))

\* The loop of disk_info, from the partition at the head of partitions on:
\* "return data" is inside the loop, after the usage fields, so the loop ends
\* at the first partition whose usage can be read, and a loop that runs out
\* of partitions falls off the end of the function, which returns None.
RECURSIVE disk_info_loop(_, _)
disk_info_loop(data, partitions) ==
    IF partitions = <<>> THEN NoneVal
    ELSE LET partition == Head(partitions)
             info == MountInfo(partition)
         IN  IF Raised(partition.usage)
             THEN disk_info_loop(DictSet(data, partition.device, info), Tail(partitions))
             ELSE DictSet(data, partition.device, UsageInfo(info, partition.usage))

disk_info(partitions) == disk_info_loop(EmptyDict, partitions)

\* disk_io.read_bytes on None raises AttributeError.
diskio(disk_io) ==
    IF disk_io = NoneVal THEN Raise("AttributeError")
    ELSE SetAll(EmptyDict, << <<"Total read", get_size(disk_io.read_bytes)>>,
                              <<"Total write", get_size(disk_io.write_bytes)>> >>)

RECURSIVE address_loop(_, _)
address_loop(info, addresses) ==
    IF addresses = <<>> THEN info
    ELSE LET address == Head(addresses)
         IN  address_loop(
                 IF address.family = "AddressFamily.AF_INET"
                 THEN SetAll(info, << <<"IP Address", address.address>>,
                                      <<"Netmask", address.netmask>>,
                                      <<"Broadcast IP", address.broadcast>> >>)
                 ELSE IF address.family = "AddressFamily.AF_PACKET"
                 THEN SetAll(info, << <<"MAC Address", address.address>>,
                                      <<"Netmask:", address.netmask>>,
                                      <<"Broadcast MAC", address.broadcast>> >>)
                 ELSE info,
                 Tail(addresses))

RECURSIVE natwork_info_loop(_, _)
natwork_info_loop(data, if_addrs) ==
    IF if_addrs = <<>> THEN data
    ELSE natwork_info_loop(DictSet(data, Head(if_addrs)[1],
                                   address_loop(EmptyDict, Head(if_addrs)[2])),
                           Tail(if_addrs))

natwork_info(if_addrs) == natwork_info_loop(EmptyDict, if_addrs)

io_stats(net_io) ==
    SetAll(EmptyDict, << <<"Total Bytes Sent", get_size(net_io.bytes_sent)>>,
                         <<"Total Bytes Received", get_size(net_io.bytes_recv)>> >>)

\* Every GPU writes the same keys of the one record info.
RECURSIVE gpu_loop(_, _)
gpu_loop(info, gpus) ==
    IF gpus = <<>> THEN info
    ELSE LET gpu == Head(gpus)
         IN  gpu_loop(
                 SetAll(info, << <<"gpu_id", PyInt(gpu.id)>>,
                                 <<"gpu_uuid", gpu.uuid>>,
                                 <<"gpu_name", gpu.name>>,
                                 <<"gpu_load", Str(Repr(gpu.load100) \o <<"%">>)>>,
                                 <<"gpu_free_memory", Str(Repr(gpu.memoryFree) \o <<"M", "B">>)>>,
                                 <<"gpu_used_memory", Str(Repr(gpu.memoryUsed) \o <<"M", "B">>)>>,
                                 <<"gpu_total_memory", Str(Repr(gpu.memoryTotal) \o <<"M", "B">>)>>,
                                 <<"gpu_temperature", Str(Repr(gpu.temperature) \o <<"U+00C2", "U+00B0", "C">>)>> >>),
                 Tail(gpus))

gpu_stats(gpus) == DictSet(EmptyDict, "GPU", gpu_loop(EmptyDict, gpus))

(***************************************************************************)
(* Paths and the file system.  A path is the sequence of its components,   *)
(* each a sequence of characters, relative to the working directory <<>>.  *)
(***************************************************************************)
Path(parts) == [t |-> "path", parts |-> parts]
JsonSuffix == <<".", "j", "s", "o", "n">>

RECURSIVE Prefixes(_)
Prefixes(parts) == IF parts = <<>> THEN {<<>>} ELSE {parts} \cup Prefixes(Front(parts))

\* name.rfind(ch), counting from 1: 0 when ch is not in name.
RFind(name, ch) ==
    IF \E i \in 1..Len(name) : name[i] = ch
    THEN CHOOSE i \in 1..Len(name) : name[i] = ch /\ \A j \in (i + 1)..Len(name) : name[j] # ch
    ELSE 0

\* PurePath.suffix: from the last dot on, unless that dot starts or ends the name.
PathSuffix(name) ==
    LET i == RFind(name, ".")
    IN  IF 1 < i /\ i < Len(name) THEN SubSeq(name, i, Len(name)) ELSE <<>>

\* str(output) + ".json": the new suffix added, the old one kept.
append_suffix(name, new) == name \o new

\* PurePath.with_suffix on the last component.
with_suffix(name, new) ==
    IF PathSuffix(name) = <<>> THEN name \o new
    ELSE SubSeq(name, 1, Len(name) - Len(PathSuffix(name))) \o new

DirName(i) == <<"d">> \o Digits(i)
DirChain(n) == [i \in 1..n |-> DirName(i)]
FileNames == {DirName(1), <<"r", ".", "t">>, <<"r", ".", "t", ".", "g">>, <<".", "r">>,
              <<"r", ".">>}
Outputs == {NoneVal} \cup {Path(Append(DirChain(n), name)) : n \in 0..MaxDepth, name \in FileNames}
\* The file systems the run may start in: the first n directories of the
\* chain exist; the next component may be a regular file, and a directory
\* may have the name the report is to get.
FileSystems ==
    {[dirs |-> Prefixes(DirChain(n)), files |-> {}] : n \in 0..MaxDepth}
    \cup {[dirs |-> Prefixes(DirChain(n - 1)), files |-> {DirChain(n)}] : n \in 1..MaxDepth}
    \cup {[dirs |-> {<<>>, << <<"r">> \o JsonSuffix >>}, files |-> {}]}

(***************************************************************************)
(* State.                                                                  *)
(***************************************************************************)
VARIABLES
    pc,       \* where hardware_info is: the collector to run next, ...
    output,   \* the --output option: None or a path
    dirs,     \* the directories that exist
    files,    \* the regular files that exist
    fsops,    \* what the run did to the file system, in order
    data,     \* the report
    calls,    \* the collectors invoked, in order
    answers,  \* what the operating system answered so far
    exc,      \* the exception that ended the run, or None
    printed,  \* what pprint printed, or None
    arg,      \* get_size on its own: the byte count
    ret       \* get_size on its own: the result

vars == <<pc, output, dirs, files, fsops, data, calls, answers, exc, printed, arg, ret>>

Pending == [t |-> "pending"]
NoAnswers == [cpufreq |-> NoneVal, swap |-> NoneVal, partitions |-> <<>>,
              disk_io |-> NoneVal, if_addrs |-> <<>>, gpus |-> <<>>]

\* The hosts a run may be on: the answers each query may get.
AnyHost == [cpufreq |-> CpuFreqAnswers, swap |-> SwapAnswers, partitions |-> PartitionLists,
            disk_io |-> DiskIoAnswers, if_addrs |-> IfAddrsAnswers, gpus |-> GpuLists]
\* A host on which every collector returns.
HealthyHost == [cpufreq |-> CpuFreqAnswers \ {NoneVal}, swap |-> SwapAnswers,
                partitions |-> {<<>>, <<Partition(Device(1), Usage)>>},
                disk_io |-> DiskIoAnswers \ {NoneVal}, if_addrs |-> IfAddrsAnswers,
                gpus |-> {<<>>, <<Gpu(0)>>}]

InitRun(outputs, filesystems) ==
    /\ pc = "invoke"
    /\ output \in outputs
    /\ \E fs \in filesystems : dirs = fs.dirs /\ files = fs.files
    /\ fsops = <<>>
    /\ data = EmptyDict
    /\ calls = <<>>
    /\ answers = NoAnswers
    /\ exc = NoneVal
    /\ printed = NoneVal
    /\ arg = Small(0)
    /\ ret = Pending

(***************************************************************************)
(* hardware_info                                                           *)
(***************************************************************************)
\* click.Path(file_okay=True, dir_okay=False): an existing directory is
\* refused before hardware_info is entered.
Invoke ==
    /\ pc = "invoke"
    /\ pc' = IF output # NoneVal /\ output.parts \in dirs THEN "usage_error" ELSE "system_info"
    /\ data' = EmptyDict
    /\ UNCHANGED <<output, dirs, files, fsops, calls, answers, exc, printed, arg, ret>>

\* data[key] = collector(): the collector runs, and either its result goes
\* into the report or its exception ends hardware_info.
Collect(name, key, result, next) ==
    /\ pc = name
    /\ calls' = Append(calls, name)
    /\ IF Raised(result)
       THEN /\ exc' = result
            /\ pc' = "raised"
            /\ data' = data
       ELSE /\ data' = DictSet(data, key, result)
            /\ pc' = next
            /\ exc' = exc
    /\ UNCHANGED <<output, dirs, files, fsops, printed, arg, ret>>

SystemInfo ==
    /\ Collect("system_info", "System Information", system_info(Uname), "boot_time")
    /\ UNCHANGED answers

BootTime ==
    /\ Collect("boot_time", "Boot Time", boot_time(BootStamp), "cpu_info")
    /\ UNCHANGED answers

CpuInfo(host) ==
    \E cpufreq \in host.cpufreq :
        /\ Collect("cpu_info", "CPU Information", cpu_info(CpuCount, cpufreq), "cpu_usage")
        /\ answers' = [answers EXCEPT !.cpufreq = cpufreq]

CpuUsage ==
    /\ Collect("cpu_usage", "CPU Usage Per Core", cpu_usage(CpuPercents), "memory_info")
    /\ UNCHANGED answers

MemoryInfo ==
    /\ Collect("memory_info", "Memory Information", memory_info(VirtualMemory), "swap_memory")
    /\ UNCHANGED answers

SwapMemory(host) ==
    \E swap \in host.swap :
        /\ Collect("swap_memory", "SWAP Memory", swap_memory(swap), "disk_info")
        /\ answers' = [answers EXCEPT !.swap = swap]

DiskInfo(host) ==
    \E partitions \in host.partitions :
        /\ Collect("disk_info", "Disk Information", disk_info(partitions), "diskio")
        /\ answers' = [answers EXCEPT !.partitions = partitions]

DiskIo(host) ==
    \E disk_io \in host.disk_io :
        /\ Collect("diskio", "Disk IO", diskio(disk_io), "natwork_info")
        /\ answers' = [answers EXCEPT !.disk_io = disk_io]

NatworkInfo(host) ==
    \E if_addrs \in host.if_addrs :
        /\ Collect("natwork_info", "Network Information", natwork_info(if_addrs), "io_stats")
        /\ answers' = [answers EXCEPT !.if_addrs = if_addrs]

IoStats ==
    /\ Collect("io_stats", "IO Stat", io_stats(NetIo), "gpu_stats")
    /\ UNCHANGED answers

GpuStats(host) ==
    \E gpus \in host.gpus :
        /\ Collect("gpu_stats", "gpu_stats", gpu_stats(gpus), "if_output")
        /\ answers' = [answers EXCEPT !.gpus = gpus]

\* if output:
IfOutput ==
    /\ pc = "if_output"
    /\ pc' = IF output = NoneVal THEN "pprint" ELSE "mkdir"
    /\ UNCHANGED <<output, dirs, files, fsops, data, calls, answers, exc, printed, arg, ret>>

Parent == Front(output.parts)
Exists(path) == path \in dirs \/ path \in files

\* mkdir(parents=True): every missing ancestor is made, outermost first.
mkdir_parents(path) ==
    LET missing == {n \in 1..Len(path) : SubSeq(path, 1, n) \notin dirs}
        first   == Len(path) - Cardinality(missing) + 1
    IN  [i \in 1..Cardinality(missing) |->
            [op |-> "mkdir", path |-> SubSeq(path, 1, first + i - 1)]]

\* if not output.parent.exists(): output.parent.mkdir(parents=True)
MakeParents ==
    /\ pc = "mkdir"
    /\ IF Exists(Parent)
       THEN /\ pc' = "write"
            /\ UNCHANGED <<dirs, fsops, exc>>
       ELSE IF \E p \in Prefixes(Parent) : p \in files
       THEN /\ pc' = "raised"
            /\ exc' = Raise("NotADirectoryError")
            /\ UNCHANGED <<dirs, fsops>>
       ELSE /\ pc' = "write"
            /\ fsops' = fsops \o mkdir_parents(Parent)
            /\ dirs' = dirs \cup {op.path : op \in {mkdir_parents(Parent)[i] :
                                                   i \in 1..Len(mkdir_parents(Parent))}}
            /\ exc' = exc
    /\ UNCHANGED <<output, files, data, calls, answers, printed, arg, ret>>

\* with open(output.with_suffix('.json'), 'w') as fh: json.dump(data, fh, indent=4)
WriteJson ==
    LET target == Append(Parent, with_suffix(Last(output.parts), JsonSuffix))
    IN  /\ pc = "write"
        /\ IF Parent \notin dirs
           THEN /\ pc' = "raised"
                /\ exc' = Raise(IF Parent \in files THEN "NotADirectoryError"
                                ELSE "FileNotFoundError")
                /\ UNCHANGED <<files, fsops>>
           ELSE IF target \in dirs
           THEN /\ pc' = "raised"
                /\ exc' = Raise("IsADirectoryError")
                /\ UNCHANGED <<files, fsops>>
           ELSE /\ pc' = "pprint"
                /\ files' = files \cup {target}
                /\ fsops' = Append(fsops, [op |-> "write", path |-> target, content |-> data])
                /\ exc' = exc
        /\ UNCHANGED <<output, dirs, data, calls, answers, printed, arg, ret>>

\* pprint(data, expand_all=True): rich's pprint takes expand_all; the
\* fallback of the import, pprint.pprint, does not and raises TypeError.
Pprint ==
    /\ pc = "pprint"
    /\ \E rich \in BOOLEAN :
        IF rich
        THEN pc' = "done" /\ printed' = data /\ exc' = exc
        ELSE pc' = "raised" /\ printed' = printed /\ exc' = Raise("TypeError")
    /\ UNCHANGED <<output, dirs, files, fsops, data, calls, answers, arg, ret>>

Run(host) ==
    \/ Invoke
    \/ SystemInfo
    \/ BootTime
    \/ CpuInfo(host)
    \/ CpuUsage
    \/ MemoryInfo
    \/ SwapMemory(host)
    \/ DiskInfo(host)
    \/ DiskIo(host)
    \/ NatworkInfo(host)
    \/ IoStats
    \/ GpuStats(host)
    \/ IfOutput
    \/ MakeParents
    \/ WriteJson
    \/ Pprint

\* Any host, the report printed or written beside the working directory.
Init == InitRun({NoneVal, Path(<<DirName(1), <<"r", ".", "t">> >>)},
                {[dirs |-> {<<>>}, files |-> {}]})
Next == Run(AnyHost)
Spec == Init /\ [][Next]_vars

\* A host on which every collector returns, any --output, any file system.
InitOutput == InitRun(Outputs, FileSystems)
NextOutput == Run(HealthyHost)
SpecOutput == InitOutput /\ [][NextOutput]_vars

(***************************************************************************)
(* get_size on its own.                                                    *)
(***************************************************************************)
LimbValues == {0, 1, 128, 384, 512, 960, 1023}
EdgeValues == {0, 1, 960, 1023}
\* Every byte count of up to 3 limbs over LimbValues, and every one of up to
\* MaxLimbs limbs over EdgeValues.
ByteCounts ==
    {NatNum(l) : l \in UNION {[1..n -> LimbValues] : n \in 0..3}}
    \cup {NatNum(l) : l \in UNION {[1..n -> EdgeValues] : n \in 4..MaxLimbs}}

InitSize ==
    /\ pc = "idle"
    /\ output = NoneVal
    /\ dirs = {<<>>}
    /\ files = {}
    /\ fsops = <<>>
    /\ data = EmptyDict
    /\ calls = <<>>
    /\ answers = NoAnswers
    /\ exc = NoneVal
    /\ printed = NoneVal
    /\ arg \in ByteCounts
    /\ ret = Pending

GetSize ==
    /\ pc = "idle"
    /\ ret = Pending
    /\ ret' = get_size(arg)
    /\ UNCHANGED <<pc, output, dirs, files, fsops, data, calls, answers, exc, printed, arg>>

NextSize == GetSize
SpecSize == InitSize /\ [][NextSize]_vars

(***************************************************************************)
(* Reading a Byte-Size Value back, for the properties of get_size.         *)
(***************************************************************************)
IsDigit(c) == \E d \in 1..10 : DigitChars[d] = c
DigitValue(c) == (CHOOSE d \in 1..10 : DigitChars[d] = c) - 1

RECURSIVE DigitsToNat(_)
DigitsToNat(ds) == IF ds = <<>> THEN 0 ELSE DigitsToNat(Front(ds)) * 10 + DigitValue(Last(ds))

UnitSuffixes == [i \in 1..Len(Units) |-> Units[i] \o suffix]

\* digits "." digit digit, then one of B, KB, MB, GB, TB, PB.
IsByteSizeValue(v) ==
    /\ v.t = "str"
    /\ LET dot == RFind(v.s, ".")
       IN  /\ dot > 1
           /\ Len(v.s) >= dot + 3
           /\ \A i \in (1..(dot + 2)) \ {dot} : IsDigit(v.s[i])
           /\ \E u \in 1..Len(Units) : SubSeq(v.s, dot + 3, Len(v.s)) = UnitSuffixes[u]

\* The magnitude in hundredths and the unit (0 for B, 1 for KB, ...).
ParseSize(v) ==
    LET dot == RFind(v.s, ".")
    IN  [hundredths |-> DigitsToNat(SubSeq(v.s, 1, dot - 1)) * 100
                        + DigitsToNat(SubSeq(v.s, dot + 1, dot + 2)),
         unit |-> (CHOOSE u \in 1..Len(Units) :
                       SubSeq(v.s, dot + 3, Len(v.s)) = UnitSuffixes[u]) - 1]

\* The k with 1024^k <= b < 1024^(k+1), 0 for b < 1024.
BucketOf(b) == IF b.ip = <<>> THEN 0 ELSE Len(b.ip) - 1

\* The bucket of hundredths/100 * 1024^unit.
BucketOfParsed(p) ==
    IF p.hundredths >= 100 * factor THEN p.unit + 1
    ELSE IF p.hundredths >= 100 \/ p.unit = 0 THEN p.unit
    ELSE IF p.hundredths >= 1 THEN p.unit - 1
    ELSE 0

\* b / 1024^k in hundredths, rounded down, k being BucketOf(b), and whether
\* that is the exact quotient.
ExactHundredths(b) ==
    IF b.ip = <<>> THEN [floor |-> 0, exact |-> TRUE]
    ELSE LET r == MulLimbs(Tail(b.ip), 100)
         IN  [floor |-> Head(b.ip) * 100 + r.c, exact |-> AllZero(r.l)]

\* C1: for 0 <= b < 1024^6, get_size(b) is b divided by 1024 k times, k the
\* fewest divisions that bring it below 1024, with 2 fractional digits (a
\* hundredth next to the exact quotient) and the k-th unit; get_size(0) is
\* "0.00B", get_size(1023) ends in B, get_size(1024) is "1.00KB" and
\* get_size(1048576) is "1.00MB".
C1_GetSizeBelow1024Pow6 ==
    (ret # Pending /\ Len(arg.ip) <= Len(Units)) =>
        /\ IsByteSizeValue(ret)
        /\ ParseSize(ret).unit = BucketOf(arg)
        /\ LET e == ExactHundredths(arg)
           IN  \/ ParseSize(ret).hundredths = e.floor
               \/ ~e.exact /\ ParseSize(ret).hundredths = e.floor + 1
        /\ arg = Small(0) => ret = Str(<<"0", ".", "0", "0", "B">>)
        /\ arg = Small(1023) => ParseSize(ret).unit = 0
        /\ arg = Small(1024) => ret = Str(<<"1", ".", "0", "0", "K", "B">>)
        /\ arg = Small(1048576) => ret = Str(<<"1", ".", "0", "0", "M", "B">>)

\* C2: for every b >= 0, get_size(b) read back (magnitude times the power of
\* 1024 of its unit) lies in the 1024-unit bucket of b, also for b just below
\* a bucket boundary such as 1048575.
C2_ReparseSameBucket ==
    ret # Pending =>
        /\ IsByteSizeValue(ret)
        /\ BucketOfParsed(ParseSize(ret)) = BucketOf(arg)

\* C3: for every b >= 0, however large, get_size(b) is a Byte-Size Value whose
\* unit is the largest one not exceeding b, PB for every b >= 1024^5; it never
\* returns no value.
C3_AlwaysByteSizeValue ==
    ret # Pending =>
        /\ ret # NoneVal
        /\ IsByteSizeValue(ret)
        /\ ParseSize(ret).unit = IF BucketOf(arg) < Len(Units) THEN BucketOf(arg)
                                 ELSE Len(Units) - 1

(***************************************************************************)
(* Properties of the report.                                               *)
(***************************************************************************)
Ran(name) == \E i \in 1..Len(calls) : calls[i] = name
Readable(partition) == ~Raised(partition.usage)
UsageLabels == {"Total Size", "Used", "Free", "Percentage"}
MountLabels == {"Mountpoint", "File system type", "opts", "maxfile", "maxpath"}
Labels(d) == {d.items[i].k : i \in 1..Len(d.items)}
DiskSection == Get(data, "Disk Information")
DiskInfoReturned == HasKey(data, "Disk Information")

\* The devices the Disk Information section has an entry for.
DiskEntries == IF IsDict(DiskSection) THEN Labels(DiskSection) ELSE {}

\* C4: when the usage query raises a permission error for some partitions,
\* disk_info does not raise and the Disk Information section has an entry
\* for every partition whose usage can be read and none for a partition whose
\* usage cannot be read.
C4_DiskInfoSkipsUnreadable ==
    (Ran("disk_info") /\ \E i \in 1..Len(answers.partitions) : ~Readable(answers.partitions[i])) =>
        /\ DiskInfoReturned
        /\ \A i \in 1..Len(answers.partitions) :
              LET partition == answers.partitions[i]
              IN  IF Readable(partition)
                  THEN /\ partition.device \in DiskEntries
                       /\ UsageLabels \subseteq Labels(Get(DiskSection, partition.device))
                  ELSE \/ partition.device \notin DiskEntries
                       \/ \E j \in 1..Len(answers.partitions) :
                              /\ Readable(answers.partitions[j])
                              /\ answers.partitions[j].device = partition.device

CollectorOrder == <<"system_info", "boot_time", "cpu_info", "cpu_usage", "memory_info",
                    "swap_memory", "disk_info", "diskio", "natwork_info", "io_stats",
                    "gpu_stats">>
SectionNames == <<"System Information", "Boot Time", "CPU Information", "CPU Usage Per Core",
                  "Memory Information", "SWAP Memory", "Disk Information", "Disk IO",
                  "Network Information", "IO Stat", "GPU Stats">>

\* C5: whichever collectors fail, hardware_info does not abort: a run that
\* has stopped has run all eleven collectors and its report has a section
\* for each of them.
C5_NoCollectorFailureAborts ==
    pc \in {"done", "raised"} =>
        /\ calls = CollectorOrder
        /\ Len(data.items) = Len(CollectorOrder)

\* C6: with zero GPUs, hardware_info goes on without error and the report
\* has the section "GPU Stats" with an empty mapping as its payload.
C6_NoGpuSectionEmpty ==
    (Ran("gpu_stats") /\ answers.gpus = <<>>) =>
        /\ pc # "raised" \/ exc.type = "TypeError"
        /\ HasKey(data, "GPU Stats")
        /\ Get(data, "GPU Stats") = EmptyDict

\* C7: the report of a completed run has exactly the eleven section keys, in
\* the order System Information ... GPU Stats; each collector is invoked once,
\* in that order, one after the other.
C7_SectionOrder ==
    /\ \E n \in 0..Len(CollectorOrder) : calls = SubSeq(CollectorOrder, 1, n)
    /\ pc = "done" => calls = CollectorOrder /\ Keys(data) = SectionNames

\* C8: in the report of a completed run every one of the eleven payloads is a
\* mapping, never None, whatever the host: no partitions, every partition
\* unreadable, no swap, no network interface.
C8_PayloadsAreMappings ==
    pc = "done" =>
        /\ Len(data.items) = Len(SectionNames)
        /\ \A i \in 1..Len(data.items) : IsDict(data.items[i].v)

FirstReadable(partitions) ==
    CHOOSE f \in 1..Len(partitions) :
        Readable(partitions[f]) /\ \A i \in 1..(f - 1) : ~Readable(partitions[i])

\* The entry of the first readable partition has the usage fields, with the
\* formatted sizes, and no entry under another device has any.
UsageOnlyForFirstReadable ==
    LET partitions == answers.partitions
        first == partitions[FirstReadable(partitions)]
    IN  /\ first.device \in DiskEntries
        /\ Get(DiskSection, first.device) = UsageInfo(MountInfo(first), first.usage)
        /\ \A dev \in DiskEntries \ {first.device} :
               Labels(Get(DiskSection, dev)) \cap UsageLabels = {}

ExpectedName(name) ==
    LET dot == RFind(name, ".")
    IN  IF dot > 1 /\ dot < Len(name) THEN SubSeq(name, 1, dot - 1) \o JsonSuffix
        ELSE name \o JsonSuffix

ExpectedTarget == Append(Parent, ExpectedName(Last(output.parts)))

\* --output names a place a file can be written to: no directory has its
\* name or the name of the file to write, no regular file is in its parents.
UsablePath ==
    /\ output # NoneVal
    /\ output.parts \notin dirs
    /\ ExpectedTarget \notin dirs
    /\ \A p \in Prefixes(Parent) : p \notin files

\* C9: with a usable --output on a host where every collector returns, the
\* missing parent directories are made, outermost first, and then the report
\* is written, once, to <path> with its final extension replaced by .json;
\* a write comes only after all eleven sections; without --output the file
\* system is not touched.
C9_OutputFile ==
    /\ output = NoneVal => fsops = <<>>
    /\ \A i \in 1..Len(fsops) :
           fsops[i].op = "write" =>
               /\ i = Len(fsops)
               /\ calls = CollectorOrder
               /\ Len(data.items) = Len(CollectorOrder)
               /\ fsops[i].content = data
    /\ UsablePath =>
           /\ pc # "usage_error"
           /\ pc = "raised" => exc.type = "TypeError"
    /\ (UsablePath /\ pc \in {"pprint", "done", "raised"}) =>
           /\ fsops # <<>>
           /\ Last(fsops).op = "write"
           /\ Last(fsops).path = ExpectedTarget
           /\ ExpectedTarget \in files
           /\ Prefixes(Parent) \subseteq dirs
           /\ \A i \in 1..(Len(fsops) - 1) :
                  /\ fsops[i].op = "mkdir"
                  /\ fsops[i].path \in Prefixes(Parent)
                  /\ Len(fsops[i].path) = Len(Parent) - (Len(fsops) - 1) + i

\* A completed run that made two parent directories and wrote the report
\* for --output d1/d2/r.t.g.
C9_Witness ==
    /\ pc = "done"
    /\ output = Path(<<DirName(1), DirName(2), <<"r", ".", "t", ".", "g">> >>)
    /\ Len(fsops) = 3
    /\ Last(fsops).path = <<DirName(1), DirName(2), <<"r", ".", "t">> \o JsonSuffix>>

====
